---- MODULE Spec2Model ----
(***************************************************************************)
(* A model of the `meta` workspace tool: the manifest editor               *)
(* (src/src/editor.rs), the workspace version bump and the per-repository  *)
(* batch runner (src/src/main.rs), and the repository lookup and the git   *)
(* operations (src/src/git.rs).                                            *)
(*                                                                         *)
(* A manifest on disk is a sequence of lines (table headers and key/value  *)
(* lines); the in-memory document is the sequence of tables the parser     *)
(* builds from them.                                                       *)
(***************************************************************************)
EXTENDS Integers, Sequences, FiniteSets, TLC

VARIABLES
    \* one CrateEditor
    file,            \* content of <path>/Cargo.toml on disk
    doc,             \* CrateEditor.doc, or NoDoc before CrateEditor::new
    members,         \* the `members` slice handed to update_dependencies
    last,            \* name of the last CrateEditor method that returned
    \* shared by the editor and bump_all
    new_version,     \* the Version to set
    \* bump_all
    meta,            \* Meta.toml: workspace.members, or NoFile
    disk,            \* member path -> content of its Cargo.toml on disk
    original,        \* disk as it was when bump_all started
    editors,         \* the `editors` vector: [path, doc] per loaded member
    member_names,    \* the `member_names` set
    updated,         \* editors the second loop has been through
    pc,              \* where bump_all, or run_git_on_all, is
    \* run_git_on_all
    fs,              \* the directories that exist and those that hold a .git
    repo_map,        \* the `repo_map`: repository root -> its members
    pending,         \* the groups the loop has not come to yet
    applied,         \* the roots `op` was called on, in the order of the calls
    passed,          \* the member lists `op` was called with, in that order
    reported,        \* the roots whose error was printed
    result,          \* what the command returned: "none" until it returns
    \* one call of a function of git.rs
    call,            \* the function called, with its arguments
    ret,             \* what the call returned, NotReturned until it returns
    warnings,        \* the members a warning was printed for, in order
    current,         \* find_git_root: the `current` directory, None before the loop
    tested,          \* find_git_root: the directories tested for .git, in order
    cmds,            \* the git commands run, in order, each with how it ended
    worktree         \* the repository the commands run in

editorVars == <<file, doc, members, last>>
bumpVars == <<meta, disk, original, editors, member_names, updated, pc>>
gitVars == <<fs, repo_map, pending, applied, passed, reported, result>>
callVars == <<call, ret, warnings, current, tested, cmds, worktree>>
vars == <<file, doc, members, last, new_version,
          meta, disk, original, editors, member_names, updated, pc,
          fs, repo_map, pending, applied, passed, reported, result,
          call, ret, warnings, current, tested, cmds, worktree>>

----------------------------------------------------------------------------
\* Bounds of the model

\* dependency declarations in one manifest (over its three dependency tables)
MaxDeps == 1

\* workspace members listed in Meta.toml
MaxMembers == 2

----------------------------------------------------------------------------
\* Strings and versions

NoDoc == [none |-> "doc"]
NoValue == [none |-> "value"]

\* Option<T>
Some(x) == [some |-> TRUE, v |-> x]
None == [some |-> FALSE]

\* A file on disk: its lines, the line ending they end with and whether the
\* last line has one; or no file at that path
File(lines, eol, final) == [exists |-> TRUE, lines |-> lines, eol |-> eol, final |-> final]
NoFile == [exists |-> FALSE]

DigitChars == <<"0", "1", "2", "3", "4", "5", "6", "7", "8", "9">>

\* one character of a string, as a string
CharAt(s, i) == SubSeq(s, i, i)

\* semver::Version as Display prints it: "<major>.<minor>.<patch>"
VersionToString(v) ==
    DigitChars[v.major + 1] \o "." \o DigitChars[v.minor + 1] \o "." \o DigitChars[v.patch + 1]

IsDigitChar(c) == \E i \in 1..Len(DigitChars) : DigitChars[i] = c

DigitValue(c) == (CHOOSE i \in 1..Len(DigitChars) : DigitChars[i] = c) - 1

\* semver::Version::parse(s).ok(): None unless s is "<digit>.<digit>.<digit>"
VersionParse(s) ==
    IF /\ Len(s) = 5
       /\ IsDigitChar(CharAt(s, 1)) /\ CharAt(s, 2) = "." /\ IsDigitChar(CharAt(s, 3))
       /\ CharAt(s, 4) = "." /\ IsDigitChar(CharAt(s, 5))
    THEN Some([major |-> DigitValue(CharAt(s, 1)), minor |-> DigitValue(CharAt(s, 3)),
               patch |-> DigitValue(CharAt(s, 5))])
    ELSE None

\* str::starts_with('v')
StartsWithV(s) == Len(s) > 0 /\ CharAt(s, 1) = "v"

\* format!("v{}", new_version)
VPrefixed(v) == "v" \o VersionToString(v)

----------------------------------------------------------------------------
\* Values, keys and items of a document

\* A string value.  decor is the formatting around it: what the file had
\* ("custom", "plain") once parsed, "none" for a value the program created.
StrValue(s, decor) == [type |-> "string", s |-> s, decor |-> decor]

\* toml_edit::value(String) / Value::from(String): a fresh string, no decor
NewStr(s) == StrValue(s, "none")

\* Item::as_str / Value::as_str: Some for a string value only
IsStr(val) == val.type = "string"

\* A key as written: `get` is the parsed key, `quoted` whether the file
\* wrote it as "key".
BareKey(name) == [get |-> name, quoted |-> FALSE]

\* Display of a key (KeyMut::to_string): the key as written, quotes included
KeyToString(k) == IF k.quoted THEN "\"" \o k.get \o "\"" ELSE k.get

\* InlineTable: an ordered map, as a sequence of [key, value] entries
IndexOfKey(entries, name) ==
    IF \E i \in 1..Len(entries) : entries[i].key = name
    THEN CHOOSE i \in 1..Len(entries) : entries[i].key = name
    ELSE 0

\* InlineTable::contains_key
ContainsKey(entries, name) == IndexOfKey(entries, name) # 0

\* InlineTable::get
GetAttr(entries, name) ==
    IF ContainsKey(entries, name) THEN entries[IndexOfKey(entries, name)].value ELSE NoValue

\* InlineTable::get(..).and_then(as_str) = Some(s)
AttrIs(entries, name, s) ==
    /\ ContainsKey(entries, name)
    /\ IsStr(GetAttr(entries, name))
    /\ GetAttr(entries, name).s = s

\* InlineTable::insert: replace the value in place, or append the entry
InsertAttr(entries, name, val) ==
    IF ContainsKey(entries, name)
    THEN [entries EXCEPT ![IndexOfKey(entries, name)].value = val]
    ELSE Append(entries, [key |-> name, value |-> val])

\* InlineTable::remove: drop the entry, the others keep their order
RemoveAttr(entries, name) ==
    LET i == IndexOfKey(entries, name)
    IN  IF i = 0 THEN entries
        ELSE SubSeq(entries, 1, i - 1) \o SubSeq(entries, i + 1, Len(entries))

InlineItem(entries) == [type |-> "inline", entries |-> entries]

\* a struct-like table such as [dependencies.foo]
TableItem(entries) == [type |-> "table", entries |-> entries]

\* Item::is_value for an item that is not an inline table
IsPlainValue(item) == item.type \in {"string", "integer"}

----------------------------------------------------------------------------
\* The document: the root table's own key/value items, then the [header] tables
\* in file order.  A table's items are [key, item] entries in file order.

EmptyDoc == [root |-> <<>>, tables |-> <<>>]

HeaderLine(name) == [t |-> "header", name |-> name]
KeyValueLine(key, item) == [t |-> "kv", key |-> key, item |-> item]
InvalidLine == [t |-> "invalid"]

HasKey(items, name) == \E i \in 1..Len(items) : items[i].key.get = name

HasTable(d, name) == \E i \in 1..Len(d.tables) : d.tables[i].name = name

TableIndex(d, name) == CHOOSE i \in 1..Len(d.tables) : d.tables[i].name = name

\* str::parse::<DocumentMut>() over lines i.. of the content: an error for a line
\* that is no TOML, a table header seen twice, or a key seen twice in its table.
\* The line endings are not part of the document.
RECURSIVE ParseLines(_, _, _)
ParseLines(lines, i, acc) ==
    IF i > Len(lines) THEN [ok |-> TRUE, doc |-> acc]
    ELSE LET ln == lines[i] IN
         IF ln.t = "invalid" THEN [ok |-> FALSE]
         ELSE IF ln.t = "header"
         THEN IF HasTable(acc, ln.name) \/ HasKey(acc.root, ln.name)
              THEN [ok |-> FALSE]
              ELSE ParseLines(lines, i + 1,
                       [acc EXCEPT !.tables = Append(@, [name |-> ln.name, items |-> <<>>])])
         ELSE LET entry == [key |-> ln.key, item |-> ln.item]
                  n == Len(acc.tables)
              IN  IF n = 0
                  THEN IF HasKey(acc.root, ln.key.get)
                       THEN [ok |-> FALSE]
                       ELSE ParseLines(lines, i + 1, [acc EXCEPT !.root = Append(@, entry)])
                  ELSE IF HasKey(acc.tables[n].items, ln.key.get)
                       THEN [ok |-> FALSE]
                       ELSE ParseLines(lines, i + 1,
                                [acc EXCEPT !.tables[n].items = Append(@, entry)])

Parse(content) == ParseLines(content.lines, 1, EmptyDoc)

\* RenderValue that writes every value in the default formatting
RenderValueReformatted(val) == [val EXCEPT !.decor = "plain"]

\* How a value is written out: a value the program created has no decor of its
\* own and is written in the plain default formatting
RenderValue(val) == IF val.decor = "none" THEN [val EXCEPT !.decor = "plain"] ELSE val

RenderItem(item) ==
    IF item.type \in {"inline", "table"}
    THEN [item EXCEPT !.entries =
             [i \in 1..Len(item.entries) |->
                 [item.entries[i] EXCEPT !.value = RenderValue(@)]]]
    ELSE RenderValue(item)

RenderItems(items) ==
    [i \in 1..Len(items) |-> KeyValueLine(items[i].key, RenderItem(items[i].item))]

RECURSIVE RenderTables(_, _)
RenderTables(tables, i) ==
    IF i > Len(tables) THEN <<>>
    ELSE <<HeaderLine(tables[i].name)>> \o RenderItems(tables[i].items)
             \o RenderTables(tables, i + 1)

\* DocumentMut::to_string: the lines, each written with a "\n" after it
DocToString(d) == File(RenderItems(d.root) \o RenderTables(d.tables, 1), "\n", TRUE)

----------------------------------------------------------------------------
\* CrateEditor

\* Table index assignment `table[name] = item`: the item is replaced where the
\* key is, and appended under a new key otherwise
SetItem(items, name, item) ==
    IF HasKey(items, name)
    THEN LET i == CHOOSE j \in 1..Len(items) : items[j].key.get = name
         IN  [items EXCEPT ![i].item = item]
    ELSE Append(items, [key |-> BareKey(name), item |-> item])

GetItem(items, name) ==
    IF HasKey(items, name)
    THEN LET i == CHOOSE j \in 1..Len(items) : items[j].key.get = name
         IN  items[i].item
    ELSE NoValue

\* CrateEditor::new: read <path>/Cargo.toml and parse it
new(f) == IF f.exists THEN Parse(f) ELSE [ok |-> FALSE]

\* CrateEditor::bump_version: self.doc["package"]["version"] = value(new_version.to_string()).
\* Indexing a document that has no `package` makes it an inline table of the root.
bump_version(d, v) ==
    LET fresh == NewStr(VersionToString(v)) IN
    IF HasTable(d, "package")
    THEN [d EXCEPT !.tables[TableIndex(d, "package")].items = SetItem(@, "version", fresh)]
    ELSE IF HasKey(d.root, "package")
    THEN LET old == GetItem(d.root, "package")
         IN  [d EXCEPT !.root =
                 SetItem(@, "package", InlineItem(InsertAttr(old.entries, "version", fresh)))]
    ELSE [d EXCEPT !.root =
             SetItem(@, "package", InlineItem(InsertAttr(<<>>, "version", fresh)))]

\* self.doc.get("package").and_then(|p| p.get(field)): the item, or NoValue
PackageField(d, field) ==
    IF HasTable(d, "package")
    THEN GetItem(d.tables[TableIndex(d, "package")].items, field)
    ELSE IF HasKey(d.root, "package") /\ GetItem(d.root, "package").type = "inline"
    THEN GetAttr(GetItem(d.root, "package").entries, field)
    ELSE NoValue

\* CrateEditor::get_package_name
get_package_name(d) ==
    LET n == PackageField(d, "name")
    IN  IF n # NoValue /\ IsStr(n) THEN Some(n.s) ELSE None

\* CrateEditor::get_version
get_version(d) ==
    LET n == PackageField(d, "version")
    IN  IF n # NoValue /\ IsStr(n) THEN VersionParse(n.s) ELSE None

\* the table types that contain dependencies
DepTables == <<"dependencies", "dev-dependencies", "build-dependencies">>

IsDepTable(name) == \E i \in 1..Len(DepTables) : DepTables[i] = name

\* update_dependencies, the `version` attribute of an inline table
UpdateVersionAttr(entries, v) ==
    IF ContainsKey(entries, "version")
    THEN InsertAttr(entries, "version", NewStr(VersionToString(v)))
    ELSE entries

\* NewTag with the two branches of `if has_v` exchanged
NewTagBranchesSwapped(tag_str, v) ==
    IF StartsWithV(tag_str) THEN VersionToString(v) ELSE VPrefixed(v)

\* update_dependencies, the tag an existing tag is replaced by
NewTag(tag_str, v) == IF StartsWithV(tag_str) THEN VPrefixed(v) ELSE VersionToString(v)

\* update_dependencies, `branch` and `tag` of an inline table
UpdateBranchTag(entries, v) ==
    IF ContainsKey(entries, "branch")
    THEN InsertAttr(RemoveAttr(entries, "branch"), "tag", NewStr(VPrefixed(v)))
    ELSE IF ContainsKey(entries, "tag") /\ IsStr(GetAttr(entries, "tag"))
    THEN InsertAttr(entries, "tag", NewStr(NewTag(GetAttr(entries, "tag").s, v)))
    ELSE entries

\* update_dependencies, one declaration of a workspace member
UpdateItem(item, v) ==
    IF item.type = "inline"
    THEN InlineItem(UpdateBranchTag(UpdateVersionAttr(item.entries, v), v))
    ELSE IF IsPlainValue(item)
    THEN NewStr(VersionToString(v))
    ELSE item

\* IsMember with the membership test left out: every dependency is rewritten
IsMemberUnchecked(key, names) == TRUE

\* update_dependencies, `members.contains(&dep_name.to_string())`
IsMember(key, names) == KeyToString(key) \in names

\* update_dependencies, one (dep_name, dep_item) of a dependency table
UpdateEntry(entry, names, v) ==
    IF IsMember(entry.key, names) THEN [entry EXCEPT !.item = UpdateItem(@, v)] ELSE entry

\* update_dependencies, one table of the document
UpdateTable(table, names, v) ==
    IF IsDepTable(table.name)
    THEN [table EXCEPT !.items = [i \in 1..Len(table.items) |-> UpdateEntry(table.items[i], names, v)]]
    ELSE table

\* CrateEditor::update_dependencies
update_dependencies(d, names, v) ==
    [d EXCEPT !.tables = [i \in 1..Len(d.tables) |-> UpdateTable(d.tables[i], names, v)]]

\* CrateEditor::save: what is written to <path>/Cargo.toml
save(d) == DocToString(d)

----------------------------------------------------------------------------
\* The manifests, member names and versions the editor is run on

Versions == {[major |-> 0, minor |-> 2, patch |-> 0], [major |-> 1, minor |-> 0, patch |-> 3]}

PackageNames == {"dep-a", "dep-b"}

\* the `members` slices: package names of workspace members
MemberLists == {{"dep-a"}, {"dep-a", "dep-b"}}

\* a dependency key, written bare or quoted
DepKeys == [get : PackageNames, quoted : BOOLEAN]

OptAttr(name, strs) ==
    {<<>>} \cup {<<[key |-> name, value |-> StrValue(s, "custom")]>> : s \in strs}

\* where an inline declaration takes the package from: nowhere, a path, or a
\* git repository, with a tag, a branch or both
Sources ==
    {<<>>} \cup OptAttr("path", {"../dep"})
        \cup {g \o t \o b :
                 g \in OptAttr("git", {"https://example.com/repo"}) \ {<<>>},
                 t \in OptAttr("tag", {"v0.1.0", "0.1.0"}),
                 b \in OptAttr("branch", {"master"})}

\* the attribute sets of an inline declaration
InlineEntries == {src \o ver : src \in Sources, ver \in OptAttr("version", {"0.1.0"})}

\* a dependency declaration: a bare version string, an inline attribute set,
\* or a struct-like table
Declarations ==
    {StrValue("0.1.0", "custom")}
        \cup {InlineItem(e) : e \in InlineEntries}
        \cup {TableItem(<<[key |-> "version", value |-> StrValue("0.1.0", "custom")]>>)}

DepPlacements == [table : 1..Len(DepTables), key : DepKeys, item : Declarations]

\* up to MaxDeps declarations, in file order: tables in the order of DepTables,
\* no key twice in a table
DepLists ==
    UNION {{l \in [1..n -> DepPlacements] :
                /\ \A i \in 1..(n - 1) : l[i].table <= l[i + 1].table
                /\ \A i, j \in 1..n :
                       (i # j /\ l[i].table = l[j].table) => l[i].key.get # l[j].key.get}
           : n \in 0..MaxDeps}

RECURSIVE DepLines(_, _)
DepLines(l, i) ==
    IF i > Len(l) THEN <<>>
    ELSE (IF i = 1 \/ l[i - 1].table # l[i].table
          THEN <<HeaderLine(DepTables[l[i].table])>> ELSE <<>>)
         \o <<KeyValueLine(l[i].key, l[i].item)>> \o DepLines(l, i + 1)

PackageLines(name, version) ==
    <<HeaderLine("package"),
      KeyValueLine(BareKey("name"), StrValue(name, "custom")),
      KeyValueLine(BareKey("version"), StrValue(version, "custom"))>>

\* the Cargo.toml files an editor is opened on: a package and its
\* dependencies; a manifest with no package; a file that is no TOML; no file
LineEndings == {"\n", "\r\n"}

\* how a manifest's lines end: the line ending, and whether the last line has one
Terminators ==
    {[eol |-> e, final |-> TRUE] : e \in LineEndings} \cup {[eol |-> "\n", final |-> FALSE]}

EditorFiles ==
    {File(PackageLines("my-crate", "0.1.0") \o DepLines(l, 1), t.eol, t.final) :
        l \in DepLists, t \in Terminators}
        \cup {File(<<>>, "\n", TRUE),
               File(<<HeaderLine("package"), InvalidLine>>, "\n", TRUE), NoFile}

----------------------------------------------------------------------------
\* One CrateEditor over one manifest: new, then any calls of its methods

\* a call that has not returned
NotReturned == [returned |-> FALSE]
Returned(value) == [returned |-> TRUE, value |-> value]

\* a repository with nothing to commit
CleanWorktree == [modified |-> {}, staged |-> {}, commits |-> <<>>]

\* no function of git.rs is being called on its own
CallIdle ==
    /\ call = [op |-> "none"]
    /\ ret = NotReturned
    /\ warnings = <<>>
    /\ current = None
    /\ tested = <<>>
    /\ cmds = <<>>
    /\ worktree = CleanWorktree

\* no run_git_on_all is under way
GitIdle ==
    /\ fs = [exists |-> {}, git |-> {}]
    /\ repo_map = <<>>
    /\ pending = {}
    /\ applied = <<>>
    /\ passed = <<>>
    /\ reported = {}
    /\ result = "none"

BumpIdle ==
    /\ meta = NoFile
    /\ disk = <<>>
    /\ original = <<>>
    /\ editors = <<>>
    /\ member_names = {}
    /\ updated = 0
    /\ pc = "idle"

EditorInit ==
    /\ file \in EditorFiles
    /\ doc = NoDoc
    /\ members \in MemberLists
    /\ new_version \in Versions
    /\ last = "none"
    /\ BumpIdle
    /\ GitIdle
    /\ CallIdle

New ==
    /\ last = "none"
    /\ LET r == new(file)
       IN  IF r.ok
           THEN doc' = r.doc /\ last' = "new"
           ELSE doc' = doc /\ last' = "new_failed"
    /\ UNCHANGED <<file, members, new_version, bumpVars, gitVars, callVars>>

\* BumpVersion that writes the manifest as it goes
BumpVersionWritingThrough ==
    /\ doc # NoDoc
    /\ doc' = bump_version(doc, new_version)
    /\ file' = save(doc')
    /\ last' = "bump_version"
    /\ UNCHANGED <<members, new_version, bumpVars, gitVars, callVars>>

BumpVersion ==
    /\ doc # NoDoc
    /\ doc' = bump_version(doc, new_version)
    /\ last' = "bump_version"
    /\ UNCHANGED <<file, members, new_version, bumpVars, gitVars, callVars>>

UpdateDependencies ==
    /\ doc # NoDoc
    /\ doc' = update_dependencies(doc, members, new_version)
    /\ last' = "update_dependencies"
    /\ UNCHANGED <<file, members, new_version, bumpVars, gitVars, callVars>>

GetPackageName ==
    /\ doc # NoDoc
    /\ get_package_name(doc).some \in BOOLEAN
    /\ UNCHANGED vars

GetVersion ==
    /\ doc # NoDoc
    /\ get_version(doc).some \in BOOLEAN
    /\ UNCHANGED vars

Save ==
    /\ doc # NoDoc
    /\ file' = save(doc)
    /\ last' = "save"
    /\ UNCHANGED <<doc, members, new_version, bumpVars, gitVars, callVars>>

EditorNext ==
    \/ New
    \/ BumpVersion
    \/ UpdateDependencies
    \/ GetPackageName
    \/ GetVersion
    \/ Save

SpecEditor == EditorInit /\ [][EditorNext]_vars

----------------------------------------------------------------------------
\* bump_all: the workspaces it is run on

\* the member directories Meta.toml may list, in the order it lists them
MemberDirs == <<"crate_a", "crate_b", "crate_c", "crate_d">>

\* package names of the members; "special-package" is the name of no directory
MemberPackageNames == {"crate_a", "special-package"}

\* keys of the members' dependencies: the package names, bare or quoted, and
\* "crate_b", the name of a member directory that is no package name
MemberDepKeys ==
    [get : MemberPackageNames \cup {"crate_b"}, quoted : {FALSE}]
        \cup {[get |-> "crate_a", quoted |-> TRUE]}

MemberDeclarations ==
    {StrValue("0.1.0", "custom"),
     InlineItem(<<[key |-> "path", value |-> StrValue("../dep", "custom")],
                  [key |-> "version", value |-> StrValue("0.1.0", "custom")]>>),
     InlineItem(<<[key |-> "git", value |-> StrValue("https://example.com/repo", "custom")],
                  [key |-> "tag", value |-> StrValue("v0.1.0", "custom")]>>)}

\* a member's [dependencies]: none, or one declaration
MemberDepLines ==
    {<<>>} \cup {<<HeaderLine("dependencies"), KeyValueLine(k, i)>> :
                    k \in MemberDepKeys, i \in MemberDeclarations}

\* a member's Cargo.toml: a named package with its dependencies; a package
\* with no name; a file that is no TOML; no file
MemberFiles ==
    {File(PackageLines(n, "0.1.0") \o d, "\n", TRUE) : n \in MemberPackageNames, d \in MemberDepLines}
        \cup {File(<<HeaderLine("package"),
                      KeyValueLine(BareKey("version"), StrValue("0.1.0", "custom"))>>, "\n", TRUE),
               File(<<HeaderLine("package"), InvalidLine>>, "\n", TRUE),
               NoFile}

\* Meta.toml: its workspace.members
MetaFile(paths) == [exists |-> TRUE, members |-> paths]

\* the workspaces: Meta.toml lists 1..MaxMembers members, each with a Cargo.toml
Workspaces ==
    UNION {[m : {MetaFile(SubSeq(MemberDirs, 1, n))},
            d : [{MemberDirs[i] : i \in 1..n} -> MemberFiles]] : n \in 1..MaxMembers}

----------------------------------------------------------------------------
\* bump_all

EditorIdle ==
    /\ file = NoFile
    /\ doc = NoDoc
    /\ members = {}
    /\ last = "idle"

BumpInit ==
    /\ \E w \in Workspaces \cup {[m |-> NoFile, d |-> <<>>]} :
           /\ meta = w.m
           /\ disk = w.d
           /\ original = w.d
    /\ new_version \in Versions
    /\ editors = <<>>
    /\ member_names = {}
    /\ updated = 0
    /\ pc = "start"
    /\ EditorIdle
    /\ GitIdle
    /\ CallIdle

\* MetaConfig::load()?
BumpLoadConfig ==
    /\ pc = "start"
    /\ pc' = IF meta.exists THEN "load" ELSE "failed"
    /\ UNCHANGED <<meta, disk, original, editors, member_names, updated, new_version, editorVars, gitVars, callVars>>

\* one round of the first loop: CrateEditor::new(path)?, editors.push(editor)
BumpLoadMember ==
    /\ pc = "load"
    /\ Len(editors) < Len(meta.members)
    /\ LET path == meta.members[Len(editors) + 1]
           r == new(disk[path])
       IN  IF r.ok
           THEN /\ editors' = Append(editors, [path |-> path, doc |-> r.doc])
                /\ pc' = pc
           ELSE /\ editors' = editors
                /\ pc' = "failed"
    /\ UNCHANGED <<meta, disk, original, member_names, updated, new_version, editorVars, gitVars, callVars>>

\* editors.iter().filter_map(|e| e.get_package_name()).collect()
PackageNamesOf(eds) ==
    {get_package_name(eds[i].doc).v :
        i \in {j \in 1..Len(eds) : get_package_name(eds[j].doc).some}}

\* member_names is collected once every member is loaded
BumpCollectNames ==
    /\ pc = "load"
    /\ Len(editors) = Len(meta.members)
    /\ member_names' = PackageNamesOf(editors)
    /\ pc' = "update"
    /\ UNCHANGED <<meta, disk, original, editors, updated, new_version, editorVars, gitVars, callVars>>

\* one round of the second loop: bump_version, update_dependencies, save
BumpUpdateMember ==
    /\ pc = "update"
    /\ updated < Len(editors)
    /\ LET i == updated + 1
           d == update_dependencies(bump_version(editors[i].doc, new_version),
                                    member_names, new_version)
       IN  /\ editors' = [editors EXCEPT ![i].doc = d]
           /\ disk' = [disk EXCEPT ![editors[i].path] = save(d)]
    /\ updated' = updated + 1
    /\ UNCHANGED <<meta, original, member_names, pc, new_version, editorVars, gitVars, callVars>>

\* "Successfully bumped all crates", Ok(())
BumpFinish ==
    /\ pc = "update"
    /\ updated = Len(editors)
    /\ pc' = "done"
    /\ UNCHANGED <<meta, disk, original, editors, member_names, updated, new_version, editorVars, gitVars, callVars>>

BumpNext ==
    \/ BumpLoadConfig
    \/ BumpLoadMember
    \/ BumpCollectNames
    \/ BumpUpdateMember
    \/ BumpFinish

SpecBump == BumpInit /\ [][BumpNext]_vars

----------------------------------------------------------------------------
\* Repositories: find_git_root and the grouping of members

\* A canonical path is the sequence of its components; <<>> is the root
\* directory, the one path with no parent.
CanonicalPaths ==
    [crate_a |-> <<"ws", "crate_a">>,
     crate_b |-> <<"ws", "crate_b">>,
     crate_c |-> <<"ws", "libs", "crate_c">>,
     crate_d |-> <<"ws", "libs", "crate_d">>]

\* path.canonicalize(): an error for a path that does not exist
canonicalize(f, path) ==
    IF path \in f.exists THEN Some(CanonicalPaths[path]) ELSE None

\* current.parent()
parent(dir) ==
    IF Len(dir) = 0 THEN None ELSE Some(SubSeq(dir, 1, Len(dir) - 1))

\* the loop of find_git_root: the first of dir and its ancestors that holds
\* a .git, None once the root directory has been passed
RECURSIVE FindFrom(_, _)
FindFrom(f, dir) ==
    IF dir \in f.git THEN Some(dir)
    ELSE IF parent(dir).some THEN FindFrom(f, parent(dir).v)
    ELSE None

find_git_root(f, path) ==
    IF canonicalize(f, path).some
    THEN [ok |-> TRUE, root |-> FindFrom(f, canonicalize(f, path).v)]
    ELSE [ok |-> FALSE]

\* PushMember that puts the member at the front of its group
PushMemberInFront(map, root, member) ==
    [r \in DOMAIN map \cup {root} |->
        IF r = root
        THEN <<member>> \o (IF root \in DOMAIN map THEN map[root] ELSE <<>>)
        ELSE map[r]]

\* repo_map with member pushed onto the group of root
PushMember(map, root, member) ==
    [r \in DOMAIN map \cup {root} |->
        IF r = root
        THEN Append(IF root \in DOMAIN map THEN map[root] ELSE <<>>, member)
        ELSE map[r]]

\* group_members_by_repo: the members of each repository root, in the order
\* given; a member with no root is warned about and left out; a member whose
\* path cannot be canonicalized is an error
RECURSIVE GroupFrom(_, _, _, _)
GroupFrom(f, member_paths, i, map) ==
    IF i > Len(member_paths) THEN [ok |-> TRUE, map |-> map]
    ELSE LET r == find_git_root(f, member_paths[i])
         IN  IF ~r.ok THEN [ok |-> FALSE]
             ELSE IF r.root.some
                  THEN GroupFrom(f, member_paths, i + 1,
                                 PushMember(map, r.root.v, member_paths[i]))
                  ELSE GroupFrom(f, member_paths, i + 1, map)

group_members_by_repo(f, member_paths) == GroupFrom(f, member_paths, 1, <<>>)

----------------------------------------------------------------------------
\* run_git_on_all: the workspaces it is run on

\* the member lists of Meta.toml: 1..MaxMembers of the member directories
RECURSIVE MemberSeqs(_)
MemberSeqs(n) ==
    IF n = 0 THEN {<<>>}
    ELSE {Append(l, m) : l \in MemberSeqs(n - 1), m \in DOMAIN CanonicalPaths}

NoRepeat(l) == \A i, j \in 1..Len(l) : l[i] = l[j] => i = j

GitMemberLists ==
    UNION {{l \in MemberSeqs(n) : NoRepeat(l)} : n \in 1..MaxMembers}

\* the directories a .git may be in
GitDirs ==
    {<<"ws">>, <<"ws", "libs">>} \cup {CanonicalPaths[m] : m \in {"crate_a", "crate_b"}}

\* the file systems: each listed member's directory exists or not
Filesystems(l) ==
    [exists : SUBSET {l[i] : i \in 1..Len(l)}, git : SUBSET GitDirs]

----------------------------------------------------------------------------
\* run_git_on_all(op)

GitInit ==
    /\ \/ meta = NoFile /\ fs = [exists |-> {}, git |-> {}]
       \/ \E l \in GitMemberLists : meta = MetaFile(l) /\ fs \in Filesystems(l)
    /\ repo_map = <<>>
    /\ pending = {}
    /\ applied = <<>>
    /\ passed = <<>>
    /\ reported = {}
    /\ result = "none"
    /\ pc = "git_start"
    /\ new_version = [major |-> 0, minor |-> 0, patch |-> 0]
    /\ disk = <<>>
    /\ original = <<>>
    /\ editors = <<>>
    /\ member_names = {}
    /\ updated = 0
    /\ EditorIdle
    /\ CallIdle

gitFrame == <<new_version, disk, original, editors, member_names, updated, editorVars, callVars>>

\* MetaConfig::load()?
GitLoadConfig ==
    /\ pc = "git_start"
    /\ IF meta.exists
       THEN pc' = "git_group" /\ result' = result
       ELSE pc' = "git_failed" /\ result' = "err"
    /\ UNCHANGED <<meta, fs, repo_map, pending, applied, passed, reported, gitFrame>>

\* git::group_members_by_repo(&member_paths)?
GitGroupMembers ==
    /\ pc = "git_group"
    /\ LET r == group_members_by_repo(fs, meta.members)
       IN  IF r.ok
           THEN /\ repo_map' = r.map
                /\ pending' = DOMAIN r.map
                /\ pc' = "git_loop"
                /\ result' = result
           ELSE /\ UNCHANGED <<repo_map, pending>>
                /\ pc' = "git_failed"
                /\ result' = "err"
    /\ UNCHANGED <<meta, fs, applied, passed, reported, gitFrame>>

\* a variant of the loop body that gives up at the first error
GitApplyOpStoppingAtError ==
    /\ pc = "git_loop"
    /\ \E repo_root \in pending, ok \in BOOLEAN :
           /\ applied' = Append(applied, repo_root)
           /\ passed' = Append(passed, repo_map[repo_root])
           /\ pending' = IF ok THEN pending \ {repo_root} ELSE {}
           /\ reported' = IF ok THEN reported ELSE reported \cup {repo_root}
    /\ UNCHANGED <<meta, fs, repo_map, pc, result, gitFrame>>

\* one round of the loop: op(&repo_root, &members), which git makes succeed
\* or fail; an error is printed and the loop goes on. The map hands out its
\* groups in no order the code controls.
GitApplyOp ==
    /\ pc = "git_loop"
    /\ \E repo_root \in pending, ok \in BOOLEAN :
           /\ applied' = Append(applied, repo_root)
           /\ passed' = Append(passed, repo_map[repo_root])
           /\ pending' = pending \ {repo_root}
           /\ reported' = IF ok THEN reported ELSE reported \cup {repo_root}
    /\ UNCHANGED <<meta, fs, repo_map, pc, result, gitFrame>>

\* Ok(()) once the loop is through
GitReturn ==
    /\ pc = "git_loop"
    /\ pending = {}
    /\ pc' = "git_done"
    /\ result' = "ok"
    /\ UNCHANGED <<meta, fs, repo_map, pending, applied, passed, reported, gitFrame>>

GitNext ==
    \/ GitLoadConfig
    \/ GitGroupMembers
    \/ GitApplyOp
    \/ GitReturn

SpecGit == GitInit /\ [][GitNext]_vars

----------------------------------------------------------------------------
\* get_unique_repos

\* the path components there are, in the order of their bytes
Components == <<"crate_a", "crate_b", "crate_c", "crate_d", "libs", "ws">>

ComponentIndex(c) == CHOOSE i \in 1..Len(Components) : Components[i] = c

\* the Ord of PathBuf: component by component, a proper prefix first
PathLess(p, q) ==
    \E k \in 1..(Len(q)) :
        /\ k <= Len(p) + 1
        /\ \A i \in 1..(k - 1) : p[i] = q[i]
        /\ \/ k = Len(p) + 1
           \/ ComponentIndex(p[k]) < ComponentIndex(q[k])

\* paths with x put before the first path that is not less than x
RECURSIVE InsertSorted(_, _)
InsertSorted(paths, x) ==
    IF paths = <<>> THEN <<x>>
    ELSE IF PathLess(paths[1], x) THEN <<paths[1]>> \o InsertSorted(Tail(paths), x)
    ELSE <<x>> \o paths

\* a sort that is left out
SortOmitted(paths) == paths

\* unique_paths.sort()
RECURSIVE SortPaths(_)
SortPaths(paths) ==
    IF paths = <<>> THEN <<>>
    ELSE InsertSorted(SortPaths(SubSeq(paths, 1, Len(paths) - 1)), paths[Len(paths)])

\* the state of the loop of get_unique_repos
NoRepos == [ok |-> TRUE, repos |-> {}, unique_paths |-> <<>>, warned |-> <<>>]

\* a round of the loop that gives up at a member with no repository
VisitMemberNoRootFatal(f, acc, member) ==
    LET r == find_git_root(f, member)
    IN  IF ~r.ok \/ ~r.root.some THEN [acc EXCEPT !.ok = FALSE]
        ELSE IF r.root.v \in acc.repos THEN acc
        ELSE [acc EXCEPT !.repos = @ \cup {r.root.v},
                         !.unique_paths = Append(@, r.root.v)]

\* one round of the loop: `find_git_root(member)?`, then the root is pushed
\* if it is new, or the warning is printed
VisitMember(f, acc, member) ==
    LET r == find_git_root(f, member)
    IN  IF ~r.ok THEN [acc EXCEPT !.ok = FALSE]
        ELSE IF ~r.root.some THEN [acc EXCEPT !.warned = Append(@, member)]
        ELSE IF r.root.v \in acc.repos THEN acc
        ELSE [acc EXCEPT !.repos = @ \cup {r.root.v},
                         !.unique_paths = Append(@, r.root.v)]

\* the loop, from member i on; it ends at the first error
RECURSIVE VisitFrom(_, _, _, _)
VisitFrom(f, member_paths, i, acc) ==
    IF i > Len(member_paths) \/ ~acc.ok THEN acc
    ELSE VisitFrom(f, member_paths, i + 1, VisitMember(f, acc, member_paths[i]))

\* the Result of get_unique_repos, with the warnings it printed
get_unique_repos(f, member_paths) ==
    LET acc == VisitFrom(f, member_paths, 1, NoRepos)
    IN  IF acc.ok
        THEN [ok |-> TRUE, paths |-> SortPaths(acc.unique_paths), warned |-> acc.warned]
        ELSE [ok |-> FALSE, warned |-> acc.warned]

\* the member lists get_unique_repos is called with: 1..MaxMembers member
\* directories, the same one more than once too
RepoMemberLists == UNION {MemberSeqs(n) : n \in 1..MaxMembers}

\* the directories a .git may be in, the root directory among them
RepoDirs == GitDirs \cup {<<>>}

RepoFilesystems(dirs) == [exists : SUBSET dirs, git : SUBSET RepoDirs]

\* nothing else runs during a call of a function of git.rs
CallFrame ==
    /\ new_version = [major |-> 0, minor |-> 0, patch |-> 0]
    /\ meta = NoFile
    /\ disk = <<>>
    /\ original = <<>>
    /\ editors = <<>>
    /\ member_names = {}
    /\ updated = 0
    /\ repo_map = <<>>
    /\ pending = {}
    /\ applied = <<>>
    /\ passed = <<>>
    /\ reported = {}
    /\ result = "none"
    /\ doc = NoDoc
    /\ members = {}
    /\ last = "idle"

callFrame == <<new_version, meta, disk, original, editors, member_names, updated,
               repo_map, pending, applied, passed, reported, result,
               doc, members, last>>

ReposInit ==
    /\ \E l \in RepoMemberLists :
           /\ call = [op |-> "get_unique_repos", members |-> l]
           /\ fs \in RepoFilesystems({l[i] : i \in 1..Len(l)})
    /\ pc = "call_start"
    /\ ret = NotReturned
    /\ warnings = <<>>
    /\ current = None
    /\ tested = <<>>
    /\ cmds = <<>>
    /\ worktree = CleanWorktree
    /\ file = NoFile
    /\ CallFrame

\* get_unique_repos(members)
GetUniqueRepos ==
    /\ pc = "call_start"
    /\ call.op = "get_unique_repos"
    /\ LET r == get_unique_repos(fs, call.members)
       IN  /\ warnings' = r.warned
           /\ ret' = Returned(IF r.ok THEN [ok |-> TRUE, paths |-> r.paths]
                                       ELSE [ok |-> FALSE])
    /\ pc' = "call_done"
    /\ UNCHANGED <<call, fs, current, tested, cmds, worktree, file, callFrame>>

SpecRepos == ReposInit /\ [][GetUniqueRepos]_vars

----------------------------------------------------------------------------
\* The git operations

\* how the attempt to run a git command ends: the process cannot be started,
\* exits with a failure, or exits with success
Statuses == {"spawn_error", "failure", "success"}

\* a git command that was attempted, with how it ended
Run(args, status) == [args |-> args, status |-> status]

\* run_git_cmd returns Ok only for a command that ran and exited with success
run_git_cmd(status) == status = "success"

\* what an operation returns with: the commands it attempted and its Result
Outcome(attempted, ok) == [cmds |-> attempted, ok |-> ok]

\* create_branch that always runs the create command after the checkout
create_branch_always_creating(name, s1, s2) ==
    IF s1 = "spawn_error" THEN Outcome(<<Run(<<"checkout", name>>, s1)>>, FALSE)
    ELSE Outcome(<<Run(<<"checkout", name>>, s1), Run(<<"checkout", "-b", name>>, s2)>>,
                 run_git_cmd(s2))

\* create_branch, where the checkout ends as s1 and the create, if it is
\* attempted, as s2
create_branch(name, s1, s2) ==
    IF s1 = "spawn_error" THEN Outcome(<<Run(<<"checkout", name>>, s1)>>, FALSE)
    ELSE IF s1 = "success" THEN Outcome(<<Run(<<"checkout", name>>, s1)>>, TRUE)
    ELSE Outcome(<<Run(<<"checkout", name>>, s1), Run(<<"checkout", "-b", name>>, s2)>>,
                 run_git_cmd(s2))

\* the removal on origin, after a local removal that was attempted
RemoveOnOrigin(local, name, remote, s2) ==
    IF remote
    THEN Outcome(<<local, Run(<<"push", "origin", "--delete", name>>, s2)>>, run_git_cmd(s2))
    ELSE Outcome(<<local>>, TRUE)

\* remove_branch that returns the error of the local removal
remove_branch_local_fatal(name, remote, s1, s2) ==
    IF run_git_cmd(s1)
    THEN RemoveOnOrigin(Run(<<"branch", "-D", name>>, s1), name, remote, s2)
    ELSE Outcome(<<Run(<<"branch", "-D", name>>, s1)>>, FALSE)

remove_branch(name, remote, s1, s2) ==
    RemoveOnOrigin(Run(<<"branch", "-D", name>>, s1), name, remote, s2)

remove_tag(name, remote, s1, s2) ==
    RemoveOnOrigin(Run(<<"tag", "-d", name>>, s1), name, remote, s2)

\* the version of the manifest at the repository root, "unknown" if there is
\* no manifest, it does not parse, or it has no version that parses
version_str(f) ==
    IF f.exists
    THEN IF new(f).ok
         THEN IF get_version(new(f).doc).some
              THEN VersionToString(get_version(new(f).doc).v)
              ELSE "unknown"
         ELSE "unknown"
    ELSE "unknown"

\* the tag command with no test for the "unknown" version
TagUnchecked(f, args, s) ==
    Outcome(<<Run(Append(args, "v" \o version_str(f)), s)>>, run_git_cmd(s))

\* what create_tag and push_tag share: nothing is run for the "unknown"
\* version, else the command is run on the tag "v" + version
Tag(f, args, s) ==
    IF version_str(f) = "unknown" THEN Outcome(<<>>, TRUE)
    ELSE Outcome(<<Run(Append(args, "v" \o version_str(f)), s)>>, run_git_cmd(s))

create_tag(f, s) == Tag(f, <<"tag">>, s)

push_tag(f, s) == Tag(f, <<"push", "origin">>, s)

\* the commit message: the one given, or "bump version " + version
commit_msg(f, message) ==
    IF message.some THEN message.v ELSE "bump version " \o version_str(f)

\* commit: `git commit -am <msg>`
commit(f, message, s) ==
    Outcome(<<Run(<<"commit", "-am", commit_msg(f, message)>>, s)>>, run_git_cmd(s))

----------------------------------------------------------------------------
\* The git operations: the repositories they are called on

\* the tracked files of the repository
TrackedFiles == {"Cargo.toml", "random.txt"}

\* the repository before the call: some tracked files are modified, none is
\* staged, and the commits so far are left out
Worktrees == [modified : SUBSET TrackedFiles, staged : {{}}, commits : {<<>>}]

\* git commit -a: every modified tracked file is staged and committed
CommitAll(w, msg) ==
    [modified |-> {},
     staged |-> {},
     commits |-> Append(w.commits, [message |-> msg, files |-> w.modified \cup w.staged])]

\* git has something to commit with -a
CanCommitAll(w) == w.modified \cup w.staged # {}

\* the manifest at the repository root
RootManifests ==
    {File(PackageLines("test-pkg", v), "\n", TRUE) : v \in {"1.2.3", "0.1.0", "unknown", "1.2"}}
        \cup {File(<<HeaderLine("package"),
                      KeyValueLine(BareKey("name"), StrValue("test-pkg", "custom"))>>, "\n", TRUE),
               File(<<HeaderLine("package"), InvalidLine>>, "\n", TRUE),
               NoFile}

\* the calls: what main passes for each command
OpCalls ==
    {[op |-> "create_branch", name |-> "feature-x"]}
        \cup [op : {"remove_branch", "remove_tag"}, name : {"feature-x"}, remote : BOOLEAN]
        \cup [op : {"create_tag", "push_tag"}]
        \cup [op : {"commit"}, message : {Some("update cargo"), None},
               files : SUBSET TrackedFiles]

OpsInit ==
    /\ call \in OpCalls
    /\ file \in RootManifests
    /\ worktree \in Worktrees
    /\ fs = [exists |-> {}, git |-> {}]
    /\ pc = "call_start"
    /\ ret = NotReturned
    /\ warnings = <<>>
    /\ current = None
    /\ tested = <<>>
    /\ cmds = <<>>
    /\ CallFrame

\* the call returns with an outcome: its commands have been attempted
Return(outcome) ==
    /\ cmds' = outcome.cmds
    /\ ret' = Returned([ok |-> outcome.ok])
    /\ pc' = "call_done"

opsFrame == <<call, file, fs, warnings, current, tested, callFrame>>

CreateBranch ==
    /\ pc = "call_start"
    /\ call.op = "create_branch"
    /\ \E s1, s2 \in Statuses : Return(create_branch(call.name, s1, s2))
    /\ UNCHANGED <<worktree, opsFrame>>

RemoveBranch ==
    /\ pc = "call_start"
    /\ call.op = "remove_branch"
    /\ \E s1, s2 \in Statuses : Return(remove_branch(call.name, call.remote, s1, s2))
    /\ UNCHANGED <<worktree, opsFrame>>

RemoveTag ==
    /\ pc = "call_start"
    /\ call.op = "remove_tag"
    /\ \E s1, s2 \in Statuses : Return(remove_tag(call.name, call.remote, s1, s2))
    /\ UNCHANGED <<worktree, opsFrame>>

CreateTag ==
    /\ pc = "call_start"
    /\ call.op = "create_tag"
    /\ \E s \in Statuses : Return(create_tag(file, s))
    /\ UNCHANGED <<worktree, opsFrame>>

PushTag ==
    /\ pc = "call_start"
    /\ call.op = "push_tag"
    /\ \E s \in Statuses : Return(push_tag(file, s))
    /\ UNCHANGED <<worktree, opsFrame>>

\* commit; git commits only if there is something to commit
Commit ==
    /\ pc = "call_start"
    /\ call.op = "commit"
    /\ \E s \in Statuses :
           /\ s = "success" => CanCommitAll(worktree)
           /\ Return(commit(file, call.message, s))
           /\ worktree' = IF s = "success"
                           THEN CommitAll(worktree, commit_msg(file, call.message))
                           ELSE worktree
    /\ UNCHANGED opsFrame

OpsNext ==
    \/ CreateBranch
    \/ RemoveBranch
    \/ RemoveTag
    \/ CreateTag
    \/ PushTag
    \/ Commit

SpecOps == OpsInit /\ [][OpsNext]_vars

----------------------------------------------------------------------------
\* find_git_root, one round of its loop at a time

FindInit ==
    /\ \E path \in DOMAIN CanonicalPaths :
           /\ call = [op |-> "find_git_root", path |-> path]
           /\ fs \in RepoFilesystems({path})
    /\ pc = "call_start"
    /\ ret = NotReturned
    /\ warnings = <<>>
    /\ current = None
    /\ tested = <<>>
    /\ cmds = <<>>
    /\ worktree = CleanWorktree
    /\ file = NoFile
    /\ CallFrame

findFrame == <<call, fs, warnings, cmds, worktree, file, callFrame>>

\* let mut current = path.canonicalize().context(..)?
FindCanonicalize ==
    /\ pc = "call_start"
    /\ call.op = "find_git_root"
    /\ IF canonicalize(fs, call.path).some
       THEN /\ current' = canonicalize(fs, call.path)
            /\ pc' = "find_loop"
            /\ ret' = ret
       ELSE /\ current' = current
            /\ pc' = "call_done"
            /\ ret' = Returned([ok |-> FALSE])
    /\ UNCHANGED <<tested, findFrame>>

\* a round of the loop that returns None for a directory right under the
\* root directory, without a look at the root directory
FindTestStoppingBelowRoot ==
    /\ pc = "find_loop"
    /\ tested' = Append(tested, current.v)
    /\ IF current.v \in fs.git
       THEN /\ ret' = Returned([ok |-> TRUE, root |-> current])
            /\ pc' = "call_done"
            /\ current' = current
       ELSE IF Len(current.v) > 1
       THEN /\ current' = parent(current.v)
            /\ pc' = pc
            /\ ret' = ret
       ELSE /\ ret' = Returned([ok |-> TRUE, root |-> None])
            /\ pc' = "call_done"
            /\ current' = current
    /\ UNCHANGED findFrame

\* one round of the loop: current is returned if it holds a .git; else the
\* loop goes on with its parent, or returns None if it has none
FindTest ==
    /\ pc = "find_loop"
    /\ tested' = Append(tested, current.v)
    /\ IF current.v \in fs.git
       THEN /\ ret' = Returned([ok |-> TRUE, root |-> current])
            /\ pc' = "call_done"
            /\ current' = current
       ELSE IF parent(current.v).some
       THEN /\ current' = parent(current.v)
            /\ pc' = pc
            /\ ret' = ret
       ELSE /\ ret' = Returned([ok |-> TRUE, root |-> None])
            /\ pc' = "call_done"
            /\ current' = current
    /\ UNCHANGED findFrame

FindNext ==
    \/ FindCanonicalize
    \/ FindTest

\* the call runs on until it returns
SpecFind == FindInit /\ [][FindNext]_vars /\ WF_vars(FindNext)

----------------------------------------------------------------------------
\* Properties of the editor (under SpecEditor)

\* the [table, item] positions of the dependency declarations of a document
DepPositions(d) ==
    {pos \in (1..Len(d.tables)) \X (1..(MaxDeps + 3)) :
        /\ IsDepTable(d.tables[pos[1]].name)
        /\ pos[2] <= Len(d.tables[pos[1]].items)}

EntryAt(d, pos) == d.tables[pos[1]].items[pos[2]]

\* the step is a call of update_dependencies
UpdateStep == last' = "update_dependencies"

\* update_dependencies adds, drops and renames no table and no declaration
SameLayout(d, e) ==
    /\ Len(d.tables) = Len(e.tables)
    /\ \A t \in 1..Len(d.tables) :
           /\ d.tables[t].name = e.tables[t].name
           /\ Len(d.tables[t].items) = Len(e.tables[t].items)
           /\ \A i \in 1..Len(d.tables[t].items) :
                  d.tables[t].items[i].key = e.tables[t].items[i].key

\* the declaration is for a known package: its key is one of the names given
Known(entry) == entry.key.get \in members

\* C1: update_dependencies leaves every dependency declaration whose key is
\* not among the known package names exactly as it was, in each of the three
\* dependency tables.
C1_UnknownUntouched ==
    [][UpdateStep =>
          /\ SameLayout(doc, doc')
          /\ \A pos \in DepPositions(doc) :
                 ~Known(EntryAt(doc, pos)) => EntryAt(doc', pos) = EntryAt(doc, pos)]_vars

\* C1 witness: update_dependencies has run over a manifest that declares, with
\* a branch, a package that is not among the known names
C1_Witness ==
    /\ last = "update_dependencies"
    /\ \E pos \in DepPositions(doc) :
           /\ ~Known(EntryAt(doc, pos))
           /\ EntryAt(doc, pos).item.type = "inline"
           /\ ContainsKey(EntryAt(doc, pos).item.entries, "branch")

\* C2: after update_dependencies no inline declaration of a known package
\* carries `branch`; one that had `branch` has tag = "v" + new_version instead.
C2_BranchBecomesTag ==
    [][UpdateStep =>
          \A pos \in DepPositions(doc) :
              (Known(EntryAt(doc, pos)) /\ EntryAt(doc, pos).item.type = "inline") =>
                  /\ EntryAt(doc', pos).item.type = "inline"
                  /\ ~ContainsKey(EntryAt(doc', pos).item.entries, "branch")
                  /\ ContainsKey(EntryAt(doc, pos).item.entries, "branch") =>
                         AttrIs(EntryAt(doc', pos).item.entries, "tag",
                                "v" \o VersionToString(new_version))]_vars

\* C3: a known inline declaration with a tag and no branch keeps the tag's
\* prefix convention: "v" + new_version for a tag that began with "v", the bare
\* new_version otherwise.
C3_TagPrefixKept ==
    [][UpdateStep =>
          \A pos \in DepPositions(doc) :
              LET old == EntryAt(doc, pos).item IN
              (/\ Known(EntryAt(doc, pos))
               /\ old.type = "inline"
               /\ ContainsKey(old.entries, "tag")
               /\ IsStr(GetAttr(old.entries, "tag"))
               /\ ~ContainsKey(old.entries, "branch")) =>
                  AttrIs(EntryAt(doc', pos).item.entries, "tag",
                         IF StartsWithV(GetAttr(old.entries, "tag").s)
                         THEN "v" \o VersionToString(new_version)
                         ELSE VersionToString(new_version))]_vars

\* C4: for every known key the version requirement is rewritten in the shape
\* that is there: a bare string becomes new_version; an inline set with
\* `version` gets version = new_version; one without gets none; `path` and
\* `git` stay as they were.
C4_VersionRewritten ==
    [][UpdateStep =>
          \A pos \in DepPositions(doc) :
              LET old == EntryAt(doc, pos).item
                  cur == EntryAt(doc', pos).item
              IN  Known(EntryAt(doc, pos)) =>
                  /\ old.type = "string" =>
                         (cur.type = "string" /\ cur.s = VersionToString(new_version))
                  /\ old.type = "inline" =>
                         /\ cur.type = "inline"
                         /\ ContainsKey(old.entries, "version") =>
                                AttrIs(cur.entries, "version", VersionToString(new_version))
                         /\ ~ContainsKey(old.entries, "version") =>
                                ~ContainsKey(cur.entries, "version")
                         /\ \A other \in {"path", "git"} :
                                GetAttr(cur.entries, other) = GetAttr(old.entries, other)]_vars

\* C5: bump_version and update_dependencies are idempotent: a second call in a
\* row, with the same inputs, leaves the document as the first call left it.
C5_Idempotent ==
    [][(/\ last \in {"bump_version", "update_dependencies"}
        /\ last' = last) => doc' = doc]_vars

\* C5 witness: update_dependencies has rewritten a declaration that started
\* with `branch` (the file, not yet saved, still has it) into one with a tag
C5_Witness ==
    /\ last = "update_dependencies"
    /\ file.exists
    /\ Parse(file).ok
    /\ \E pos \in DepPositions(doc) :
           /\ EntryAt(Parse(file).doc, pos).item.type = "inline"
           /\ ContainsKey(EntryAt(Parse(file).doc, pos).item.entries, "branch")
           /\ AttrIs(EntryAt(doc, pos).item.entries, "tag", VPrefixed(new_version))

\* the step is a save that directly follows the load
SaveAfterNew == last = "new" /\ last' = "save"

C7_OnlySaveWrites == [][file' # file => last' = "save"]_vars

\* C7 witness: the document has been changed in memory and the file on disk
\* still has the old content
C7_Witness ==
    /\ last \in {"bump_version", "update_dependencies"}
    /\ file.exists
    /\ Parse(file).ok
    /\ Parse(file).doc # doc
    /\ get_version(Parse(file).doc) # Some(new_version)
    /\ get_version(doc) = Some(new_version)

----------------------------------------------------------------------------
\* Properties of bump_all (under SpecBump)

\* the manifest now at a member's path, loaded
Manifest(path) == new(disk[path])

\* the package names of the workspace's members, as their manifests had them
\* before bump_all ran
WorkspacePackageNames ==
    {get_package_name(new(original[p]).doc).v :
        p \in {q \in DOMAIN original :
                  new(original[q]).ok /\ get_package_name(new(original[q]).doc).some}}

\* a bare or inline declaration references version v
References(item, v) ==
    /\ item.type = "string" => item.s = VersionToString(v)
    /\ item.type = "inline" =>
           /\ ContainsKey(item.entries, "version") =>
                  AttrIs(item.entries, "version", VersionToString(v))
           /\ ContainsKey(item.entries, "tag") =>
                  \/ AttrIs(item.entries, "tag", VersionToString(v))
                  \/ AttrIs(item.entries, "tag", "v" \o VersionToString(v))
           /\ ~ContainsKey(item.entries, "branch")

\* C8: after a successful bump_all every member manifest has package version
\* new_version, and every bare or inline dependency declaration of a member
\* whose key is the package name of a member references new_version; the
\* known names are those of all members, collected before any was changed.
C8_BumpAllResult ==
    pc = "done" =>
        /\ member_names = WorkspacePackageNames
        /\ \A p \in DOMAIN disk :
               /\ Manifest(p).ok
               /\ get_version(Manifest(p).doc) = Some(new_version)
               /\ \A pos \in DepPositions(Manifest(p).doc) :
                      LET entry == EntryAt(Manifest(p).doc, pos)
                      IN  (/\ entry.key.get \in WorkspacePackageNames
                           /\ entry.item.type \in {"string", "inline"}) =>
                              References(entry.item, new_version)

\* bump_all has returned
BumpReturned == pc \in {"done", "failed"}

\* C9: a member manifest that cannot be read or parsed is fatal for that
\* member only: once bump_all has returned, every other member's manifest is
\* saved with the new version.
C9_FailureIsolated ==
    (BumpReturned /\ meta.exists) =>
        \A p \in DOMAIN original :
            new(original[p]).ok =>
                /\ Manifest(p).ok
                /\ get_version(Manifest(p).doc) = Some(new_version)

----------------------------------------------------------------------------
\* Properties of run_git_on_all (under SpecGit)

\* the roots `op` has been called on
Attempted == {applied[i] : i \in 1..Len(applied)}

\* C10: run_git_on_all calls the operation on every repository group exactly
\* once: never twice on a group, only on groups of repo_map, and whichever
\* calls have failed, the groups not yet called stay in the loop, so that all
\* groups have been called when it returns.
C10_EveryGroupOnce ==
    /\ \A i, j \in 1..Len(applied) : applied[i] = applied[j] => i = j
    /\ Attempted \subseteq DOMAIN repo_map
    /\ reported \subseteq Attempted
    /\ pc = "git_loop" => pending = DOMAIN repo_map \ Attempted
    /\ pc = "git_done" => Attempted = DOMAIN repo_map

\* C10 witness: run_git_on_all has returned from a workspace of two or more
\* groups where the first call failed and a later one succeeded
C10_Witness ==
    /\ pc = "git_done"
    /\ Len(applied) >= 2
    /\ applied[1] \in reported
    /\ applied[Len(applied)] \notin reported

\* C11: run_git_on_all reports the failures of the groups in its final status:
\* once all groups have been processed it ends with a failure if and only if
\* the operation failed on at least one group.
C11_FailuresAggregated ==
    pc = "git_done" => (result = "err" <=> reported # {})

\* the repository root of a member, None for a member in no repository
RootOf(member) == find_git_root(fs, member).root

\* the members of a list that are in the repository root, in the list's order
MembersIn(member_paths, root) ==
    SelectSeq(member_paths, LAMBDA m : RootOf(m) = Some(root))

\* C12: grouping the members by repository root gives one group per distinct
\* root; a member with a root is in the group of its root and in no other; no
\* group is empty; the members of a group are in the order of the input list;
\* and each call of the operation gets a root with the group of that root.
C12_OneGroupPerRoot ==
    pc \in {"git_loop", "git_done"} =>
        /\ DOMAIN repo_map =
               {RootOf(meta.members[i]).v :
                   i \in {j \in 1..Len(meta.members) : RootOf(meta.members[j]).some}}
        /\ \A root \in DOMAIN repo_map :
               /\ repo_map[root] # <<>>
               /\ repo_map[root] = MembersIn(meta.members, root)
        /\ Len(passed) = Len(applied)
        /\ \A i \in 1..Len(applied) : passed[i] = MembersIn(meta.members, applied[i])

\* C12 witness: the operation has been called with a group of two members
\* that share a repository root
C12_Witness ==
    /\ pc = "git_done"
    /\ \E i \in 1..Len(passed) :
           /\ Len(passed[i]) = 2
           /\ RootOf(passed[i][1]) = Some(applied[i])
           /\ RootOf(passed[i][2]) = Some(applied[i])

----------------------------------------------------------------------------
\* Properties of get_unique_repos (under SpecRepos)

\* get_unique_repos has returned
UniqueReturned == call.op = "get_unique_repos" /\ ret.returned

\* the elements of a sequence
Range(seq) == {seq[i] : i \in 1..Len(seq)}

\* every member of the list exists, so that each has a canonical path
AllExist(member_paths) == Range(member_paths) \subseteq fs.exists

\* the repository roots of the members of a list
RootsOf(member_paths) ==
    {RootOf(m).v : m \in {n \in Range(member_paths) : RootOf(n).some}}

\* C13: get_unique_repos returns the repository roots of the members, each
\* once, in sorted order; every list of the same members, in any order and
\* with any member repeated, gives the same result.
C13_SortedUniqueRoots ==
    /\ (UniqueReturned /\ ~AllExist(call.members)) =>
           /\ ~ret.value.ok
           /\ \A l \in RepoMemberLists :
                  Range(l) = Range(call.members) => ~get_unique_repos(fs, l).ok
    /\ (UniqueReturned /\ AllExist(call.members)) =>
        /\ ret.value.ok
        /\ Range(ret.value.paths) = RootsOf(call.members)
        /\ \A i \in 1..(Len(ret.value.paths) - 1) :
               PathLess(ret.value.paths[i], ret.value.paths[i + 1])
        /\ \A l \in RepoMemberLists :
               Range(l) = Range(call.members) =>
                   get_unique_repos(fs, l).paths = ret.value.paths

\* C13 witness: get_unique_repos has returned two roots for a list that names
\* the member of the second root first
C13_Witness ==
    /\ UniqueReturned
    /\ ret.value.ok
    /\ Len(ret.value.paths) = 2
    /\ RootOf(call.members[1]) = Some(ret.value.paths[2])

\* C14: a member with no repository above it gets a warning and is left out of
\* the result; it does not end the call: the roots of the other members are
\* returned.
C14_NoRootIsWarning ==
    (UniqueReturned /\ AllExist(call.members)) =>
        /\ ret.value.ok
        /\ warnings = SelectSeq(call.members, LAMBDA m : ~RootOf(m).some)
        /\ \A m \in Range(call.members) :
               RootOf(m).some => RootOf(m).v \in Range(ret.value.paths)
        /\ \A i \in 1..Len(ret.value.paths) :
               \E m \in Range(call.members) : RootOf(m) = Some(ret.value.paths[i])

\* C14 witness: get_unique_repos has returned the root of the second member
\* after a warning for the first
C14_Witness ==
    /\ UniqueReturned
    /\ Len(call.members) = 2
    /\ warnings = <<call.members[1]>>
    /\ ret.value.ok
    /\ ret.value.paths = <<RootOf(call.members[2]).v>>

----------------------------------------------------------------------------
\* Properties of the git operations (under SpecOps)

\* the named operation has returned
OpReturned(op) == call.op = op /\ ret.returned

\* C15: commit stages the files it is given and nothing else, then commits: a
\* modified file that is not in the list is in no commit; with an empty list
\* commit runs nothing, creates no commit and returns success.
C15_CommitsGivenFilesOnly ==
    OpReturned("commit") =>
        /\ \A i \in 1..Len(worktree.commits) : worktree.commits[i].files \subseteq call.files
        /\ call.files = {} =>
               /\ cmds = <<>>
               /\ worktree.commits = <<>>
               /\ ret.value.ok

\* the operation was remove_branch or remove_tag, and it has returned
RemoveReturned == OpReturned("remove_branch") \/ OpReturned("remove_tag")

\* the command of the local removal
LocalRemoval ==
    IF call.op = "remove_branch" THEN <<"branch", "-D", call.name>>
    ELSE <<"tag", "-d", call.name>>

\* C16: remove_branch and remove_tag attempt the local removal first and
\* ignore how it ends; with remote = false nothing else is run and they return
\* success; with remote = true they then run the removal on origin and return
\* an error exactly when that one fails.
C16_LocalFailureSwallowed ==
    RemoveReturned =>
        /\ Len(cmds) = (IF call.remote THEN 2 ELSE 1)
        /\ cmds[1].args = LocalRemoval
        /\ ~call.remote => ret.value.ok
        /\ call.remote =>
               /\ cmds[2].args = <<"push", "origin", "--delete", call.name>>
               /\ ret.value.ok <=> cmds[2].status = "success"

\* C16 witness: a removal has returned success after the local removal failed
\* and the removal on origin succeeded
C16_Witness ==
    /\ RemoveReturned
    /\ call.remote
    /\ cmds[1].status = "failure"
    /\ cmds[2].status = "success"
    /\ ret.value.ok

\* the operation was create_tag or push_tag, and it has returned
TagReturned == OpReturned("create_tag") \/ OpReturned("push_tag")

\* the manifest at the repository root has a version that parses
HasVersion == file.exists /\ Parse(file).ok /\ get_version(Parse(file).doc).some

\* the command create_tag or push_tag runs on a tag name
TagCommand(tag_name) ==
    IF call.op = "create_tag" THEN <<"tag", tag_name>> ELSE <<"push", "origin", tag_name>>

\* C17: create_tag and push_tag run their one command on the tag "v" + version
\* of the manifest at the repository root; with no manifest, one that does not
\* parse, or no version that parses, they run no command and return success.
C17_UnknownVersionSkipped ==
    TagReturned =>
        /\ HasVersion =>
               /\ Len(cmds) = 1
               /\ cmds[1].args =
                      TagCommand("v" \o VersionToString(get_version(Parse(file).doc).v))
               /\ ret.value.ok <=> cmds[1].status = "success"
        /\ ~HasVersion => (cmds = <<>> /\ ret.value.ok)
        /\ \A i \in 1..Len(cmds) : cmds[i].args # TagCommand("vunknown")

\* C17 witness: create_tag or push_tag has returned from a repository whose
\* manifest has a version that does not parse
C17_Witness ==
    /\ TagReturned
    /\ file.exists
    /\ Parse(file).ok
    /\ PackageField(Parse(file).doc, "version") # NoValue
    /\ ~HasVersion
    /\ ret.value.ok

\* the commands of create_branch are the checkout and then, at most, the create
CheckoutFirst ==
    /\ Len(cmds) \in {1, 2}
    /\ cmds[1].args = <<"checkout", call.name>>
    /\ Len(cmds) = 2 =>
           /\ cmds[1].status # "success"
           /\ cmds[2].args = <<"checkout", "-b", call.name>>

\* C18 as stated: create_branch attempts the checkout first, runs the create
\* only if the checkout failed, and returns an error exactly when both the
\* checkout and the create have failed.
C18_ErrorIffBothFail ==
    OpReturned("create_branch") =>
        /\ CheckoutFirst
        /\ ~ret.value.ok <=>
               /\ Len(cmds) = 2
               /\ cmds[1].status # "success"
               /\ cmds[2].status # "success"

\* C18 as amended: create_branch attempts the checkout first; it runs the
\* create exactly when the checkout ran and exited with a failure; it returns
\* an error exactly when the checkout could not be run at all, or the create
\* was attempted and failed.
C18_CheckoutThenCreate ==
    OpReturned("create_branch") =>
        /\ CheckoutFirst
        /\ Len(cmds) = 2 <=> cmds[1].status = "failure"
        /\ ~ret.value.ok <=>
               \/ cmds[1].status = "spawn_error"
               \/ Len(cmds) = 2 /\ cmds[2].status # "success"

\* C18 witness: create_branch has returned success after a checkout that
\* failed and a create that succeeded
C18_Witness ==
    /\ OpReturned("create_branch")
    /\ Len(cmds) = 2
    /\ cmds[1].status = "failure"
    /\ cmds[2].status = "success"
    /\ ret.value.ok

----------------------------------------------------------------------------
\* Properties of find_git_root (under SpecFind)

\* the directories tested so far are the canonical path and then, one by one,
\* the parent of the one before; none but the last holds a .git
TestedUpwards ==
    /\ tested # <<>> => tested[1] = CanonicalPaths[call.path]
    /\ \A i \in 1..(Len(tested) - 1) :
           /\ parent(tested[i]) = Some(tested[i + 1])
           /\ tested[i] \notin fs.git

\* what find_git_root has returned is right
FoundNearest ==
    ret.returned =>
        /\ ret.value.ok <=> call.path \in fs.exists
        /\ ret.value = find_git_root(fs, call.path)
        /\ ~ret.value.ok => tested = <<>>
        /\ (ret.value.ok /\ ret.value.root.some) =>
               /\ ret.value.root.v = tested[Len(tested)]
               /\ ret.value.root.v \in fs.git
        /\ (ret.value.ok /\ ~ret.value.root.some) =>
               /\ tested[Len(tested)] = <<>>
               /\ \A i \in 1..Len(tested) : tested[i] \notin fs.git

\* C19: find_git_root returns in the end; from the canonical path it tests the
\* path and then each parent in turn, returns the first of them that holds the
\* marker, and None only once the root directory has been tested with none
\* found; for a path with no canonical form it returns an error.
C19_FindTerminates ==
    /\ [](call.op = "find_git_root" => (TestedUpwards /\ FoundNearest))
    /\ <>(ret.returned)

\* C19 witness: find_git_root has returned None for a path three directories
\* deep, after the test of the root directory
C19_Witness ==
    /\ call.op = "find_git_root"
    /\ ret.returned
    /\ ret.value.ok
    /\ ~ret.value.root.some
    /\ Len(tested) = 4
    /\ tested[4] = <<>>

============================================================================
